---- MODULE Spec2Model ----
(***************************************************************************)
(* Model of telemost_transcribe: the session controller                    *)
(* (browser/telemost.py, TelemostSession.join_and_record and the two       *)
(* polling loops it drives), the transcription engine                      *)
(* (transcription/groq_transcriber.py, GroqTranscriber.transcribe) and     *)
(* the command line pipeline that runs one after the other (cli.py).       *)
(*                                                                         *)
(* Spec           the session controller, from _wait_for_connection on     *)
(* TranscribeSpec the transcription engine, one transcribe() call          *)
(* ScopeSpec      one "async with TelemostSession" statement around        *)
(*                join_and_record, with cancellation and _cleanup          *)
(* PipelineSpec   main and _run_recording: configuration, session scope,   *)
(*                transcription, artifact removal, exit code               *)
(***************************************************************************)
EXTENDS Integers, Sequences, FiniteSets, TLC

\* ------------------------------------------------------------------------
\* Bounds of the model
\* ------------------------------------------------------------------------
MaxWaitingRoomTimeout == 2
MaxMonitorPolls == 4
MaxManualSeconds == 2

\* ------------------------------------------------------------------------
\* Program constants
\* ------------------------------------------------------------------------
STATUS_CHECK_INTERVAL == 5
AUDIO_TRACKS_WAIT == 5
\* The clock and the audio time ranges are counted in ticks of 10 ms.
TicksPerSecond == 100

Max(a, b) == IF a >= b THEN a ELSE b

MinUnclamped(a, b) == a

Min(a, b) == IF a <= b THEN a ELSE b

VARIABLES
    \* TelemostSession fields (constructor arguments)
    waiting_room_timeout, alone_wait_seconds, empty_meeting_timeout,
    \* join_and_record's argument
    wait_for_end,
    \* position in join_and_record, exception that left it, and whether
    \* the task running it has been cancelled
    pc, error, interrupted,
    \* the clock (datetime.now), and join_and_record's started_at, ended_at
    \* and duration (-1: not assigned yet)
    now, started_at, ended_at, duration_seconds,
    \* the milestones of join_and_record passed so far, with their times
    events,
    \* locals of _wait_for_connection
    i, has_connection_no_audio,
    \* locals of _wait_for_end
    alone_count, total_alone_time, had_participants,
    \* the page: torn down or not, recording primitive invoked or not
    page_closed, recording,
    \* results the probe gave to the polls made so far, in order
    joinPolls, monPolls

configVars == <<waiting_room_timeout, alone_wait_seconds, empty_meeting_timeout,
                wait_for_end>>
clockVars == <<now, started_at, ended_at, duration_seconds>>
joinVars == <<i, has_connection_no_audio, joinPolls>>
monitorVars == <<alone_count, total_alone_time, had_participants, monPolls>>

sessionVars == <<configVars, pc, error, interrupted, clockVars, events,
                 joinVars, monitorVars, page_closed, recording>>

VARIABLES
    \* the disk: the artifact that transcribe() is given
    input_exists,
    \* position in transcribe(), its result and the exception that left it
    tpc, tresult, terror,
    \* the disk: the temporary files that exist
    files, next_path,
    \* transcribe / _transcribe_segmented locals
    language, mp3_path, file_size, duration, target_segment_duration,
    silence_points, segments, all_texts, total_duration, detected_language,
    \* _create_segments locals
    sp_index, segment_start,
    \* _split_by_duration locals, and who called it
    current_start, split_segments, split_caller,
    \* _transcribe_single locals, and the segment being transcribed
    attempt, seg_index,
    \* audio-tool invocations, client calls and sleeps made so far, in order
    calls

engineVars == <<tpc, tresult, terror, files, next_path,
                language, mp3_path, file_size, duration, target_segment_duration,
                silence_points, segments, all_texts, total_duration,
                detected_language, sp_index, segment_start,
                current_start, split_segments, split_caller,
                attempt, seg_index, calls>>

transcribeVars == <<input_exists, engineVars>>

VARIABLES
    \* position in main / _run_recording, the exception propagating there,
    \* and the process exit code (-1: still running)
    ppc, perror, exit_code,
    \* --keep-audio as the finally block of _run_recording reads it (the
    \* flag is read nowhere else, its value is drawn there), and whether
    \* _run_recording's audio_path is assigned
    keep_audio, audio_path_set,
    \* the browser resources acquired and not released
    resources,
    \* the meeting settings of the Config object that main has loaded
    config

pipelineVars == <<ppc, perror, exit_code, keep_audio, audio_path_set, resources,
                  config>>

vars == <<sessionVars, transcribeVars, pipelineVars>>

\* ------------------------------------------------------------------------
\* Inputs
\* ------------------------------------------------------------------------
\* waiting_room_timeout: a positive number of one-second polls
WaitingRoomTimeouts == 1..MaxWaitingRoomTimeout
\* alone_wait_seconds: positive, multiples of the poll interval and values
\* in between (where floor and ceiling of the quotient differ)
AloneWaits == {1, 7, 10, 12}
\* empty_meeting_timeout: multiples of the poll interval and a value between
EmptyTimeouts == {5, 7, 10}

\* window.__rtcGetStatus() as seen by a joining poll: the two counters, or
\* the evaluate call raising (page torn down: "closed"; otherwise "error")
JoinPollResults ==
    {r \in [kind : {"status"}, peerConnections : 0..1, tracksConnected : 0..1] :
        r.tracksConnected <= r.peerConnections}
    \cup [kind : {"error", "closed"}, peerConnections : {0}, tracksConnected : {0}]

\* time _start_recording takes (its four calls into the page), in ticks:
\* a fraction of a second
Latencies == {60}

\* what the page shows to _check_meeting_ended: whether an end-of-meeting
\* element is visible, whether the address has the call path "/j/" in it,
\* and whether it has the host name "telemost" in it
EndChecks == [end_screen : BOOLEAN, call_path : BOOLEAN, host : BOOLEAN]

\* _check_meeting_ended: an end-of-meeting element is visible, or the
\* page's address has no "/j/" in it while it still has "telemost" in it
CheckMeetingEnded(o) == o.end_screen \/ (~o.call_path /\ o.host)

\* what one monitoring poll sees: the end-of-call check ("ended" when it
\* is true), the participant count the DOM shows (-1 unknown), and the
\* status evaluate call (raising: "error", "closed").  At an end-of-call
\* poll the DOM is taken to show the bot alone: the poll that would add to
\* the alone accumulators if the count were looked at.
ParticipantCounts == {-1, 1, 2}
MonPollResults ==
    LET seen == EndChecks \X {"status", "error", "closed"} \X ParticipantCounts
        kind(x) == IF CheckMeetingEnded(x[1]) THEN "ended" ELSE x[2]
        count(x) == CASE kind(x) = "ended" -> 1
                      [] kind(x) = "status" -> x[3]
                      [] OTHER -> -1
    IN  {[kind |-> kind(x), participant_count |-> count(x)] : x \in seen}

\* ------------------------------------------------------------------------
\* TelemostSession._wait_for_end helpers
\* ------------------------------------------------------------------------
MaxAloneCeil(alone_wait) ==
    Max(1, (alone_wait + STATUS_CHECK_INTERVAL - 1) \div STATUS_CHECK_INTERVAL)

\* max_alone = max(1, self.alone_wait_seconds // STATUS_CHECK_INTERVAL)
MaxAlone(alone_wait) == Max(1, alone_wait \div STATUS_CHECK_INTERVAL)

\* the classification of one monitoring poll by its participant count
AlonePoll(poll) == poll.kind = "status" /\ poll.participant_count = 1
PeersPoll(poll) == poll.kind = "status" /\ poll.participant_count > 1

AloneCountNoReset(poll, count) ==
    IF AlonePoll(poll) THEN count + 1 ELSE count

\* alone_count after one poll: alone_count += 1, alone_count = 0, or (count
\* unknown, or the status query raised) left as it is
AloneCountAfter(poll, count) ==
    IF AlonePoll(poll) THEN count + 1
    ELSE IF PeersPoll(poll) THEN 0 ELSE count

TotalAloneCountsUnknown(poll, total) ==
    IF poll.kind = "status" /\ poll.participant_count <= 1
    THEN total + STATUS_CHECK_INTERVAL ELSE total

\* total_alone_time after one poll
TotalAloneAfter(poll, total) ==
    IF AlonePoll(poll) THEN total + STATUS_CHECK_INTERVAL ELSE total

\* had_participants after one poll
HadParticipantsAfter(poll, had) == had \/ PeersPoll(poll)

MeetingEndedIgnored(poll) == FALSE

\* if await self._check_meeting_ended(): break, ahead of the participant
\* count and of the status check
MeetingEnded(poll) == poll.kind = "ended"

\* The except clause around the status check: an exception raised inside
\* the try block is re-raised as RuntimeError only when its message says
\* the page was closed; any other exception, NoParticipantsError included
\* (it derives from Exception and is raised inside the try block), is
\* logged and the loop goes on.
StatusCheckHandler(exc) ==
    IF exc = "closed" THEN "RuntimeError" ELSE "continue"

\* The body of the try block for one poll: the exception it raises
\* ("none" when it completes), given the counters after the increments.
StatusCheckRaises(poll, total, had) ==
    CASE poll.kind = "closed" -> "closed"
      [] poll.kind = "error" -> "error"
      [] poll.kind = "status" /\ poll.participant_count = 1 /\ ~had
            /\ total >= empty_meeting_timeout -> "NoParticipantsError"
      [] OTHER -> "none"

\* ------------------------------------------------------------------------
\* TelemostSession._wait_for_connection helpers
\* ------------------------------------------------------------------------
MorePollsInclusive(polls_made, timeout) == polls_made <= timeout

\* for i in range(self.waiting_room_timeout)
MorePolls(polls_made, timeout) == polls_made < timeout

WaitingRoomPollNotSticky(poll, had) ==
    poll.kind = "status" /\ poll.peerConnections > 0 /\ poll.tracksConnected = 0

\* has_connection_no_audio after one poll
WaitingRoomPoll(poll, had) ==
    had \/ (poll.kind = "status" /\ poll.peerConnections > 0 /\ poll.tracksConnected = 0)

ConnectedPollNoTracks(poll) ==
    poll.kind = "status" /\ poll.peerConnections > 0

\* if peer_conns > 0: if tracks > 0: return
ConnectedPoll(poll) ==
    poll.kind = "status" /\ poll.peerConnections > 0 /\ poll.tracksConnected > 0

\* ------------------------------------------------------------------------
\* TelemostSession.join_and_record helpers
\* ------------------------------------------------------------------------
Seconds(n) == n * TicksPerSecond

\* one milestone of join_and_record and the clock reading at it
Event(ev, at) == [ev |-> ev, at |-> at]

NotSettled(t) == t

\* await asyncio.sleep(AUDIO_TRACKS_WAIT): the clock after the settle delay
SettledAt(t) == t + Seconds(AUDIO_TRACKS_WAIT)

DurationRounded(started, ended) ==
    (ended - started + TicksPerSecond \div 2) \div TicksPerSecond

\* int((ended_at - started_at).total_seconds()): truncation towards zero
DurationSeconds(started, ended) ==
    IF ended >= started
    THEN (ended - started) \div TicksPerSecond
    ELSE 0 - ((started - ended) \div TicksPerSecond)

\* ------------------------------------------------------------------------
\* Initial state: a constructed session whose page has reached the join click
\* ------------------------------------------------------------------------
\* a session that has polled nothing yet
FreshSession ==
    /\ error = "none"
    /\ interrupted = FALSE
    /\ now = 0
    /\ started_at = -1
    /\ ended_at = -1
    /\ duration_seconds = -1
    /\ events = <<>>
    /\ i = 0
    /\ has_connection_no_audio = FALSE
    /\ alone_count = 0
    /\ total_alone_time = 0
    /\ had_participants = FALSE
    /\ page_closed = FALSE
    /\ recording = FALSE
    /\ joinPolls = <<>>
    /\ monPolls = <<>>

SessionInit ==
    /\ waiting_room_timeout \in WaitingRoomTimeouts
    /\ alone_wait_seconds \in AloneWaits
    /\ empty_meeting_timeout \in EmptyTimeouts
    /\ wait_for_end = TRUE
    /\ pc = "wait_for_connection"
    /\ FreshSession

\* ------------------------------------------------------------------------
\* _wait_for_connection: one iteration of the for loop (status query,
\* classification, one-second sleep)
\* ------------------------------------------------------------------------
WaitForConnectionPoll ==
    /\ UNCHANGED <<transcribeVars, pipelineVars>>
    /\ pc = "wait_for_connection"
    /\ MorePolls(i, waiting_room_timeout)
    /\ \E poll \in JoinPollResults :
        /\ page_closed => poll.kind = "closed"
        /\ joinPolls' = Append(joinPolls, poll)
        /\ page_closed' = (page_closed \/ poll.kind = "closed")
        /\ IF ConnectedPoll(poll)
           THEN /\ pc' = "connected"
                /\ events' = Append(events, Event("connected", now))
                /\ UNCHANGED <<i, has_connection_no_audio, now>>
           ELSE /\ has_connection_no_audio' = WaitingRoomPoll(poll, has_connection_no_audio)
                /\ i' = i + 1
                /\ now' = now + Seconds(1)
                /\ pc' = pc
                /\ events' = events
    /\ UNCHANGED <<configVars, error, interrupted, started_at, ended_at,
                   duration_seconds, monitorVars, recording>>

\* _wait_for_connection: the loop ran out
WaitForConnectionTimeout ==
    /\ UNCHANGED <<transcribeVars, pipelineVars>>
    /\ pc = "wait_for_connection"
    /\ ~MorePolls(i, waiting_room_timeout)
    /\ IF has_connection_no_audio
       THEN pc' = "raised" /\ error' = "WaitingRoomTimeoutError" /\ events' = events
       ELSE /\ pc' = "connected"
            /\ error' = error
            /\ events' = Append(events, Event("connected", now))
    /\ UNCHANGED <<configVars, interrupted, clockVars, joinVars, monitorVars,
                   page_closed, recording>>

\* join_and_record after _wait_for_connection returned: settle delay,
\* started_at, _start_recording, entry of _wait_for_end or of the
\* record-until-stopped loop
StartRecording ==
    /\ UNCHANGED <<transcribeVars, pipelineVars>>
    /\ pc = "connected"
    /\ \E closes \in BOOLEAN, latency \in Latencies :
        LET settled == SettledAt(now)
        IN
        /\ page_closed => closes
        /\ page_closed' = closes
        /\ started_at' = settled
        /\ now' = settled + latency
        /\ IF closes
           THEN /\ pc' = "raised"
                /\ error' = "PlaywrightError"
                /\ events' = events \o <<Event("settled", settled),
                                          Event("started_at", settled)>>
                /\ UNCHANGED <<recording, alone_count, total_alone_time, had_participants>>
           ELSE /\ pc' = IF wait_for_end THEN "wait_for_end" ELSE "record_until_stopped"
                /\ recording' = TRUE
                /\ events' = events \o <<Event("settled", settled),
                                          Event("started_at", settled),
                                          Event("recording", settled + latency)>>
                /\ alone_count' = 0
                /\ total_alone_time' = 0
                /\ had_participants' = FALSE
                /\ error' = error
    /\ UNCHANGED <<configVars, interrupted, ended_at, duration_seconds,
                   joinVars, monPolls>>

\* _wait_for_end: one iteration of the while loop
WaitForEndPoll ==
    /\ UNCHANGED <<transcribeVars, pipelineVars>>
    /\ pc = "wait_for_end"
    /\ Len(monPolls) < MaxMonitorPolls
    /\ now' = now + Seconds(STATUS_CHECK_INTERVAL)
    /\ events' = Append(events, Event("poll", now'))
    /\ \E poll \in MonPollResults :
        /\ monPolls' = Append(monPolls, poll)
        /\ page_closed' = (poll.kind = "closed")
        /\ IF MeetingEnded(poll)
           THEN /\ pc' = "get_recording"
                /\ UNCHANGED <<error, alone_count, total_alone_time, had_participants>>
           ELSE LET count == AloneCountAfter(poll, alone_count)
                    total == TotalAloneAfter(poll, total_alone_time)
                    left  == AlonePoll(poll) /\ had_participants
                                /\ count >= MaxAlone(alone_wait_seconds)
                    exc   == StatusCheckRaises(poll, total, had_participants)
                IN  /\ alone_count' = count
                    /\ total_alone_time' = total
                    /\ had_participants' = HadParticipantsAfter(poll, had_participants)
                    /\ IF left
                       THEN pc' = "get_recording" /\ error' = error
                       ELSE IF exc # "none" /\ StatusCheckHandler(exc) # "continue"
                       THEN pc' = "raised" /\ error' = StatusCheckHandler(exc)
                       ELSE pc' = pc /\ error' = error
    /\ UNCHANGED <<configVars, interrupted, started_at, ended_at, duration_seconds,
                   joinVars, recording>>

\* join_and_record with wait_for_end false: one iteration of
\* while True: await asyncio.sleep(1)
RecordUntilStoppedSleep ==
    /\ UNCHANGED <<transcribeVars, pipelineVars>>
    /\ pc = "record_until_stopped"
    /\ now - started_at < Seconds(MaxManualSeconds)
    /\ now' = now + Seconds(1)
    /\ UNCHANGED <<configVars, pc, error, interrupted, started_at, ended_at,
                   duration_seconds, events, joinVars, monitorVars, page_closed,
                   recording>>

\* the task running join_and_record is cancelled (user interrupt): the
\* pending await raises CancelledError, which only the record-until-stopped
\* loop catches
Interrupt ==
    /\ UNCHANGED <<transcribeVars, pipelineVars>>
    /\ pc \in {"navigate", "wait_for_connection", "connected", "wait_for_end",
               "record_until_stopped", "get_recording"}
    /\ ~interrupted
    /\ interrupted' = TRUE
    /\ events' = Append(events, Event("interrupt", now))
    /\ IF pc = "record_until_stopped"
       THEN pc' = "get_recording" /\ error' = error
       ELSE pc' = "raised" /\ error' = "CancelledError"
    /\ UNCHANGED <<configVars, clockVars, joinVars, monitorVars, page_closed,
                   recording>>

\* join_and_record after the monitoring phase: ended_at, _get_recording,
\* duration, RecordingResult
GetRecording ==
    /\ UNCHANGED <<engineVars, pipelineVars>>
    /\ pc = "get_recording"
    /\ ended_at' = now
    /\ \E outcome \in {"data", "nodata", "closed"} :
        /\ page_closed' = (outcome = "closed")
        /\ CASE outcome = "data" ->
                  /\ pc' = "returned"
                  /\ error' = error
                  /\ input_exists' = TRUE
                  /\ duration_seconds' = DurationSeconds(started_at, now)
                  /\ events' = events \o <<Event("ended_at", now),
                                            Event("get_recording", now)>>
             [] outcome = "nodata" ->
                  /\ pc' = "raised"
                  /\ error' = "RuntimeError"
                  /\ events' = events \o <<Event("ended_at", now),
                                            Event("get_recording", now)>>
                  /\ UNCHANGED <<input_exists, duration_seconds>>
             [] outcome = "closed" ->
                  /\ pc' = "raised"
                  /\ error' = "PlaywrightError"
                  /\ events' = events \o <<Event("ended_at", now),
                                            Event("get_recording", now)>>
                  /\ UNCHANGED <<input_exists, duration_seconds>>
    /\ UNCHANGED <<configVars, interrupted, now, started_at, joinVars, monitorVars,
                   recording>>

SessionNext ==
    \/ WaitForConnectionPoll
    \/ WaitForConnectionTimeout
    \/ StartRecording
    \/ WaitForEndPoll
    \/ GetRecording

\* ========================================================================
\* GroqTranscriber
\* ========================================================================
\* Bounds of the model
MaxSilencePoints == 2
MaxClientFailures == 3
MaxBadExtractions == 1

\* Sizes are counted in MiB.
MAX_FILE_SIZE == 24
TARGET_SEGMENT_SIZE == 20
MAX_RETRIES == 3
RETRY_DELAY == 2
\* bytes_per_second when the duration is not positive
DefaultBytesPerSecond == 16000
\* the input file is path 0; temporary files get the paths 1, 2, ...
InputPath == 0

\* ------------------------------------------------------------------------
\* Inputs
\* ------------------------------------------------------------------------
Languages == {"ru"}
\* sizes of the canonical artifact: under, at and over the ceiling
FileSizes == {MAX_FILE_SIZE - 1, MAX_FILE_SIZE, MAX_FILE_SIZE + 1, 50}
\* the artifact's real duration (one minute), reported by the duration query
ArtifactDuration == 60 * TicksPerSecond
\* sizes an extracted segment can have: under, at and over the ceiling
SegmentSizes == {MAX_FILE_SIZE - 1, MAX_FILE_SIZE, MAX_FILE_SIZE + 1}
\* Texts are sequences of characters.  What the client can answer for a
\* blob: the words spoken in it (which differ between neighbouring blobs),
\* surrounded by whitespace, or whitespace only.
Word(blob) == IF blob % 2 = 0 THEN "a" ELSE "b"

Responses(blob) ==
    { [text |-> <<" ", Word(blob), " ">>, language |-> "en", duration |-> 3],
      [text |-> <<" ">>,                  language |-> "de", duration |-> 1] }

NoResult == [text |-> <<>>, language |-> "none", duration |-> -1]

\* one entry of the call log: an audio-tool invocation (arg: the output
\* path or size, from/to: the time range), a client call (arg: the blob's
\* path, resp: the response) or a sleep (arg: the delay in seconds)
Call(op, ok, arg, from, to) ==
    [op |-> op, ok |-> ok, arg |-> arg, from |-> from, to |-> to, resp |-> NoResult]

ClientCall(ok, blob, r) ==
    [op |-> "client", ok |-> ok, arg |-> blob, from |-> 0, to |-> 0, resp |-> r]

CallsOf(op) == {n \in 1..Len(calls) : calls[n].op = op}

\* ------------------------------------------------------------------------
\* Pure helpers
\* ------------------------------------------------------------------------
RECURSIVE LStrip(_)
LStrip(s) == IF s # <<>> /\ Head(s) = " " THEN LStrip(Tail(s)) ELSE s

RECURSIVE RStrip(_)
RStrip(s) == IF s # <<>> /\ s[Len(s)] = " " THEN RStrip(SubSeq(s, 1, Len(s) - 1)) ELSE s

\* str.strip()
Strip(s) == RStrip(LStrip(s))

RECURSIVE Join(_)
JoinNoSeparator(texts) ==
    IF texts = <<>> THEN <<>>
    ELSE IF Len(texts) = 1 THEN texts[1]
    ELSE texts[1] \o Join(Tail(texts))

\* " ".join(texts)
Join(texts) ==
    IF texts = <<>> THEN <<>>
    ELSE IF Len(texts) = 1 THEN texts[1]
    ELSE texts[1] \o <<" ">> \o Join(Tail(texts))

RECURSIVE SortedSeq(_)
SortedSeq(S) ==
    IF S = {} THEN <<>>
    ELSE LET m == CHOOSE x \in S : \A y \in S : x <= y
         IN  <<m>> \o SortedSeq(S \ {m})

\* target_segment_duration = TARGET_SEGMENT_SIZE / bytes_per_second, where
\* bytes_per_second = file_size / duration if duration > 0 else 16000
TargetSegmentDuration(size, dur) ==
    IF dur > 0
    THEN (TARGET_SEGMENT_SIZE * dur) \div size
    ELSE (TARGET_SEGMENT_SIZE * 1048576 * TicksPerSecond) \div DefaultBytesPerSecond

\* silence_end timestamps the detector can report for the artifact: around
\* the 80% mark of the target, 0.1 s less than a target from the end, and
\* near the end of the file
SilenceCandidates(size) ==
    LET T == TargetSegmentDuration(size, ArtifactDuration)
        D == ArtifactDuration
    IN  {x \in {(4 * T) \div 5 - 1, (4 * T) \div 5, D - T - 10,
                D - TicksPerSecond - 1, D - TicksPerSecond} : x > 0 /\ x <= D}

SilenceLists(size) ==
    {SortedSeq(S) : S \in {X \in SUBSET SilenceCandidates(size) :
                                Cardinality(X) <= MaxSilencePoints}}

LongEnoughWholeTarget(segment_length, target) == segment_length >= target

\* segment_length >= target_duration * 0.8
LongEnough(segment_length, target) == 5 * segment_length >= 4 * target

TailRemainsInclusive(start_time, total) == start_time <= total - TicksPerSecond

\* if segment_start < total_duration - 1: the remaining audio is handled
TailRemains(start_time, total) == start_time < total - TicksPerSecond

\* _extract_segment: what the call can give for a time range.  None without
\* running the tool when the range is shorter than 0.5 s; otherwise the tool
\* runs and either fails (any file it left is removed) or leaves a file.
TooShortNever(start_time, end_time) == FALSE

\* duration = end_time - start_time; if duration < 0.5: return None
TooShort(start_time, end_time) == 2 * (end_time - start_time) < TicksPerSecond

BadExtractions ==
    Cardinality({n \in CallsOf("extract") : ~calls[n].ok \/ calls[n].arg >= MAX_FILE_SIZE})

ExtractOutcomes(start_time, end_time) ==
    IF TooShort(start_time, end_time) THEN {[run |-> FALSE, ok |-> FALSE, size |-> 0]}
    ELSE {o \in [run : {TRUE}, ok : {FALSE}, size : {0}]
                \cup [run : {TRUE}, ok : {TRUE}, size : SegmentSizes] :
            (o.ok /\ o.size < MAX_FILE_SIZE) \/ BadExtractions < MaxBadExtractions}

ExtractCalls(o, start_time, end_time) ==
    IF o.run THEN Append(calls, Call("extract", o.ok, o.size, start_time, end_time))
    ELSE calls

Segment(path, start_time, end_time, size) ==
    [path |-> path, start |-> start_time, end |-> end_time, size |-> size]

Paths(segs) == {segs[n].path : n \in 1..Len(segs)}

\* ------------------------------------------------------------------------
\* Initial state: transcribe(audio_path, language) has just been called
\* ------------------------------------------------------------------------
TranscribeInit ==
    /\ tpc = "convert"
    /\ tresult = NoResult
    /\ terror = "none"
    /\ input_exists = TRUE
    /\ files = {}
    /\ next_path = 1
    /\ language \in Languages
    /\ mp3_path = -1
    /\ file_size = 0
    /\ duration = 0
    /\ target_segment_duration = 0
    /\ silence_points = <<>>
    /\ segments = <<>>
    /\ all_texts = <<>>
    /\ total_duration = 0
    /\ detected_language = "none"
    /\ sp_index = 1
    /\ segment_start = 0
    /\ current_start = 0
    /\ split_segments = <<>>
    /\ split_caller = "none"
    /\ attempt = 0
    /\ seg_index = 0
    /\ calls = <<>>

\* ------------------------------------------------------------------------
\* Exits
\* ------------------------------------------------------------------------
\* transcribe(): finally: if mp3_path != audio_path and mp3_path.exists()
TranscribeFinally(fs, path) == IF path # InputPath THEN fs \ {path} ELSE fs

\* _transcribe_segmented(): finally: unlink every segment that exists
SegmentedFinally(fs, segs) == fs \ Paths(segs)

\* Path.unlink() of path p, seen from the input file: the input file is
\* gone when p is its path
InputAfterUnlink(exists, p) == exists /\ p # InputPath

InputAfterFinallyUnguarded(exists, path) == InputAfterUnlink(exists, path)

\* the input file after transcribe()'s finally: mp3_path is unlinked only
\* when it is not audio_path
InputAfterFinally(exists, path) ==
    IF path # InputPath THEN InputAfterUnlink(exists, path) ELSE exists

\* the input file after _transcribe_segmented()'s finally, which unlinks
\* the paths of the segments
InputAfterSegmentedFinally(exists, segs) == exists /\ InputPath \notin Paths(segs)

SingleResultUnstripped(r) ==
    [text |-> r.text, language |-> r.language, duration |-> r.duration]

\* _transcribe_single(): TranscriptResult(text.strip(), language, duration)
SingleResult(r) ==
    [text |-> Strip(r.text), language |-> r.language, duration |-> r.duration]

\* _transcribe_segmented(): the combined result
CombinedResult(texts, lang, dur) ==
    [text |-> Strip(Join(texts)), language |-> lang, duration |-> dur]

RetryDelayConstant(n) == RETRY_DELAY

\* delay = RETRY_DELAY * (2 ** attempt)
RetryDelay(n) == RETRY_DELAY * (2 ^ n)

RetriesLeftOneMore(n) == n < MAX_RETRIES

\* if attempt < MAX_RETRIES - 1: sleep and try again
RetriesLeft(n) == n < MAX_RETRIES - 1

ClientFailures == Cardinality({n \in CallsOf("client") : ~calls[n].ok})

createVars == <<sp_index, segment_start>>
splitVars == <<current_start, split_segments, split_caller>>
absorbVars == <<all_texts, total_duration, detected_language>>
inputVars == <<language, mp3_path, file_size, duration, target_segment_duration,
               silence_points>>

\* _transcribe_segmented from "Transcribe each segment" on, given the
\* segment list: the loop starts, or, with no segment, the function returns
BeginSegments(segs) ==
    /\ segments' = segs
    /\ all_texts' = <<>>
    /\ total_duration' = 0
    /\ detected_language' = language
    /\ attempt' = 0
    /\ IF segs # <<>>
       THEN /\ tpc' = "segment"
            /\ seg_index' = 1
            /\ UNCHANGED <<tresult>>
       ELSE /\ tpc' = "done"
            /\ seg_index' = 0
            /\ tresult' = CombinedResult(<<>>, language, 0)

FallbackStartLate == TicksPerSecond

\* _split_by_duration's start_offset when the caller gives none: 0.0
FallbackStart == 0

\* _transcribe_segmented: "if not segments": fall back to _split_by_duration
\* over the whole file
BeginFallbackSplit ==
    /\ tpc' = "split"
    /\ current_start' = FallbackStart
    /\ split_segments' = <<>>
    /\ split_caller' = "fallback"
    /\ UNCHANGED <<segments, absorbVars, attempt, seg_index, tresult>>

\* _create_segments returned segs
CreateSegmentsReturn(segs) ==
    IF segs = <<>>
    THEN BeginFallbackSplit
    ELSE BeginSegments(segs) /\ UNCHANGED splitVars

\* ------------------------------------------------------------------------
\* transcribe(): _convert_to_mp3 and the size check
\* ------------------------------------------------------------------------
ConversionRaisesOnTimeoutOnly(outcome) == outcome = "timeout"

\* _convert_to_mp3 raises RuntimeError when the tool exits with a non-zero
\* code and when it times out
ConversionRaises(outcome) == outcome # "ok"

ConvertToMp3 ==
    /\ UNCHANGED <<sessionVars, pipelineVars>>
    /\ tpc = "convert"
    /\ \E is_mp3 \in BOOLEAN, outcome \in {"ok", "nonzero", "timeout"},
          leftover \in BOOLEAN, size \in FileSizes :
        /\ is_mp3 => outcome = "ok"
        /\ audio_path_set => ~is_mp3
        /\ (is_mp3 \/ outcome = "ok") => leftover
        /\ outcome # "ok" => size = MAX_FILE_SIZE
        /\ IF is_mp3
           THEN /\ mp3_path' = InputPath
                /\ UNCHANGED <<files, next_path, calls, terror>>
                /\ file_size' = size
                /\ tpc' = IF size > MAX_FILE_SIZE THEN "duration" ELSE "single"
           ELSE /\ next_path' = next_path + 1
                /\ calls' = Append(calls, Call("convert", outcome = "ok", next_path, 0, 0))
                /\ CASE ~ConversionRaises(outcome) ->
                          /\ mp3_path' = next_path
                          /\ files' = files \cup {next_path}
                          /\ file_size' = size
                          /\ tpc' = IF size > MAX_FILE_SIZE THEN "duration" ELSE "single"
                          /\ UNCHANGED terror
                     [] outcome = "nonzero" ->
                          /\ files' = IF leftover THEN files \cup {next_path} ELSE files
                          /\ terror' = "RuntimeError"
                          /\ tpc' = "done"
                          /\ UNCHANGED <<mp3_path, file_size>>
                     [] outcome = "timeout" ->
                          /\ files' = files
                          /\ terror' = "RuntimeError"
                          /\ tpc' = "done"
                          /\ UNCHANGED <<mp3_path, file_size>>
    /\ UNCHANGED <<tresult, input_exists, language, duration, target_segment_duration,
                   silence_points, segments, absorbVars, createVars, splitVars,
                   attempt, seg_index>>

\* ------------------------------------------------------------------------
\* _transcribe_single: one iteration of the retry loop, for the whole file
\* (tpc = "single") or for the current segment (tpc = "segment")
\* ------------------------------------------------------------------------
TranscribeSingleAttempt ==
    /\ UNCHANGED <<sessionVars, pipelineVars>>
    /\ tpc \in {"single", "segment"}
    /\ LET blob == IF tpc = "single" THEN mp3_path ELSE segments[seg_index].path
       IN
       \/ \E r \in Responses(blob) :
            /\ calls' = Append(calls, ClientCall(TRUE, blob, r))
            /\ IF tpc = "single"
               THEN /\ tresult' = SingleResult(r)
                    /\ files' = TranscribeFinally(files, mp3_path)
                    /\ input_exists' = InputAfterFinally(input_exists, mp3_path)
                    /\ tpc' = "done"
                    /\ UNCHANGED <<absorbVars, seg_index, attempt>>
               ELSE LET res   == SingleResult(r)
                        texts == IF res.text # <<>> THEN Append(all_texts, res.text)
                                 ELSE all_texts
                        total == total_duration + res.duration
                    IN  /\ all_texts' = texts
                        /\ total_duration' = total
                        /\ detected_language' = res.language
                        /\ attempt' = 0
                        /\ IF seg_index < Len(segments)
                           THEN /\ seg_index' = seg_index + 1
                                /\ UNCHANGED <<tpc, tresult, files, input_exists>>
                           ELSE /\ seg_index' = seg_index
                                /\ tpc' = "done"
                                /\ files' = TranscribeFinally(
                                              SegmentedFinally(files, segments), mp3_path)
                                /\ input_exists' = InputAfterFinally(
                                      InputAfterSegmentedFinally(input_exists, segments),
                                      mp3_path)
                                /\ tresult' = CombinedResult(texts, res.language, total)
            /\ UNCHANGED terror
       \/ /\ ClientFailures < MaxClientFailures
          /\ IF RetriesLeft(attempt)
             THEN /\ calls' = calls \o <<ClientCall(FALSE, blob, NoResult),
                                         Call("sleep", TRUE, RetryDelay(attempt), 0, 0)>>
                  /\ attempt' = attempt + 1
                  /\ UNCHANGED <<tpc, terror, files, input_exists>>
             ELSE /\ calls' = Append(calls, ClientCall(FALSE, blob, NoResult))
                  /\ attempt' = attempt
                  /\ terror' = "RuntimeError"
                  /\ tpc' = "done"
                  /\ files' = TranscribeFinally(
                                IF tpc = "segment" THEN SegmentedFinally(files, segments)
                                ELSE files, mp3_path)
                  /\ input_exists' = InputAfterFinally(
                        IF tpc = "segment"
                        THEN InputAfterSegmentedFinally(input_exists, segments)
                        ELSE input_exists, mp3_path)
          /\ UNCHANGED <<tresult, absorbVars, seg_index>>
    /\ UNCHANGED <<inputVars, next_path, segments, createVars, splitVars>>

\* ------------------------------------------------------------------------
\* _transcribe_segmented: duration query and target segment duration
\* ------------------------------------------------------------------------
GetAudioDuration ==
    /\ UNCHANGED <<sessionVars, pipelineVars>>
    /\ tpc = "duration"
    /\ \E ok \in BOOLEAN :
        /\ duration' = IF ok THEN ArtifactDuration ELSE 0
        /\ target_segment_duration' = TargetSegmentDuration(file_size, duration')
        /\ calls' = Append(calls, Call("ffprobe", ok, 0, 0, 0))
    /\ tpc' = "silence"
    /\ UNCHANGED <<tresult, terror, input_exists, files, next_path, language, mp3_path,
                   file_size, silence_points, segments, absorbVars, createVars,
                   splitVars, attempt, seg_index>>

\* _transcribe_segmented: _detect_silence, and the entry of _create_segments
DetectSilence ==
    /\ UNCHANGED <<sessionVars, pipelineVars>>
    /\ tpc = "silence"
    /\ \E ok \in BOOLEAN, pts \in SilenceLists(file_size) :
        /\ ~ok => pts = <<>>
        /\ silence_points' = pts
        /\ calls' = Append(calls, Call("silencedetect", ok, 0, 0, 0))
        /\ IF pts = <<>>
           THEN BeginFallbackSplit /\ UNCHANGED createVars
           ELSE /\ tpc' = "create_segments"
                /\ sp_index' = 1
                /\ segment_start' = 0
                /\ segments' = <<>>
                /\ UNCHANGED <<splitVars, absorbVars, attempt, seg_index, tresult>>
    /\ UNCHANGED <<terror, input_exists, files, next_path, language, mp3_path,
                   file_size, duration, target_segment_duration>>

\* _create_segments: one iteration of the loop over the silence points
CreateSegmentsStep ==
    /\ UNCHANGED <<sessionVars, pipelineVars>>
    /\ tpc = "create_segments"
    /\ sp_index <= Len(silence_points)
    /\ LET silence_point == silence_points[sp_index]
           segment_length == silence_point - segment_start
       IN  IF LongEnough(segment_length, target_segment_duration)
           THEN \E o \in ExtractOutcomes(segment_start, silence_point) :
                  /\ next_path' = next_path + 1
                  /\ calls' = ExtractCalls(o, segment_start, silence_point)
                  /\ files' = IF o.ok THEN files \cup {next_path} ELSE files
                  /\ IF o.ok /\ o.size < MAX_FILE_SIZE
                     THEN /\ segments' = Append(segments,
                                Segment(next_path, segment_start, silence_point, o.size))
                          /\ segment_start' = silence_point
                     ELSE UNCHANGED <<segments, segment_start>>
           ELSE UNCHANGED <<next_path, calls, files, segments, segment_start>>
    /\ sp_index' = sp_index + 1
    /\ UNCHANGED <<tpc, tresult, terror, inputVars, input_exists, absorbVars,
                   splitVars, attempt, seg_index>>

\* _create_segments: "Handle remaining audio", and the return
CreateSegmentsTail ==
    /\ UNCHANGED <<sessionVars, pipelineVars>>
    /\ tpc = "create_segments"
    /\ sp_index > Len(silence_points)
    /\ IF TailRemains(segment_start, duration)
       THEN \E o \in ExtractOutcomes(segment_start, duration) :
              /\ next_path' = next_path + 1
              /\ calls' = ExtractCalls(o, segment_start, duration)
              /\ IF o.ok /\ o.size > MAX_FILE_SIZE
                 THEN /\ files' = files
                      /\ tpc' = "split"
                      /\ current_start' = segment_start
                      /\ split_segments' = <<>>
                      /\ split_caller' = "tail"
                      /\ UNCHANGED <<segments, absorbVars, attempt, seg_index, tresult>>
                 ELSE IF o.ok
                 THEN /\ files' = files \cup {next_path}
                      /\ CreateSegmentsReturn(Append(segments,
                            Segment(next_path, segment_start, duration, o.size)))
                 ELSE /\ files' = files
                      /\ CreateSegmentsReturn(segments)
       ELSE /\ UNCHANGED <<next_path, calls, files>>
            /\ CreateSegmentsReturn(segments)
    /\ UNCHANGED <<terror, inputVars, input_exists, createVars>>

\* _split_by_duration: one iteration of the while loop
SplitStep ==
    /\ UNCHANGED <<sessionVars, pipelineVars>>
    /\ tpc = "split"
    /\ current_start < duration
    /\ LET end_time == Min(current_start + target_segment_duration, duration)
       IN  \E o \in ExtractOutcomes(current_start, end_time) :
             /\ next_path' = next_path + 1
             /\ calls' = ExtractCalls(o, current_start, end_time)
             /\ files' = IF o.ok THEN files \cup {next_path} ELSE files
             /\ split_segments' = IF o.ok
                                  THEN Append(split_segments,
                                         Segment(next_path, current_start, end_time, o.size))
                                  ELSE split_segments
             /\ current_start' = end_time
    /\ UNCHANGED <<tpc, tresult, terror, inputVars, input_exists, segments, absorbVars,
                   createVars, split_caller, attempt, seg_index>>

\* _split_by_duration returns, to _create_segments (segments.extend) or to
\* _transcribe_segmented (the fallback)
SplitReturn ==
    /\ UNCHANGED <<sessionVars, pipelineVars>>
    /\ tpc = "split"
    /\ current_start >= duration
    /\ IF split_caller = "tail"
       THEN CreateSegmentsReturn(segments \o split_segments)
       ELSE BeginSegments(split_segments) /\ UNCHANGED splitVars
    \* with no segment at all the function returns at once, through the
    \* finally blocks of _transcribe_segmented and of transcribe()
    /\ files' = IF tpc' = "done" THEN TranscribeFinally(files, mp3_path) ELSE files
    /\ input_exists' = IF tpc' = "done"
                        THEN InputAfterFinally(input_exists, mp3_path)
                        ELSE input_exists
    /\ UNCHANGED <<terror, inputVars, next_path, calls, createVars>>

TranscribeNext ==
    \/ ConvertToMp3
    \/ TranscribeSingleAttempt
    \/ GetAudioDuration
    \/ DetectSilence
    \/ CreateSegmentsStep
    \/ CreateSegmentsTail
    \/ SplitStep
    \/ SplitReturn

\* ========================================================================
\* The session scope: async with TelemostSession(...) as session
\* ========================================================================
\* the browser resources, in the order _setup_browser acquires them
Resources == {"playwright", "browser", "context"}

\* what _setup_browser holds when it raises: nothing, or the resources
\* acquired before the failing call
SetupFailures == {{}, {"playwright"}, {"playwright", "browser"}, Resources}

\* the release step of _cleanup that raises, if any
ReleaseFailures == {"none", "context", "browser", "playwright"}

\* _cleanup: context.close(), browser.close(), playwright.stop() in this
\* order, none of them guarded: a step that raises skips the later ones
CleanupAfter(failing) ==
    CASE failing = "none" -> {}
      [] failing = "context" -> {"browser", "playwright"}
      [] failing = "browser" -> {"playwright"}
      [] failing = "playwright" -> {}

\* TelemostSession.__init__'s default for waiting_room_timeout (300 in the
\* source): the largest number of joining polls that is followed
DEFAULT_WAITING_ROOM_TIMEOUT == MaxWaitingRoomTimeout

\* Config.load: the meeting settings read from the environment
\* (ALONE_WAIT_SECONDS, EMPTY_MEETING_TIMEOUT, WAITING_ROOM_TIMEOUT); for
\* the waiting-room timeout the default and a value that is not the default
Configs ==
    [alone_wait_seconds : {2 * STATUS_CHECK_INTERVAL},
     empty_meeting_timeout : {2 * STATUS_CHECK_INTERVAL},
     waiting_room_timeout : {1, DEFAULT_WAITING_ROOM_TIMEOUT}]

\* no Config object (yet, or any more)
NoConfig ==
    [alone_wait_seconds |-> 0, empty_meeting_timeout |-> 0, waiting_room_timeout |-> 0]

\* _run_recording: the keyword arguments of TelemostSession(...) are
\* alone_wait_seconds and empty_meeting_timeout of the Config object;
\* waiting_room_timeout is not among them and takes the constructor's default
SessionArguments(cfg) ==
    [alone_wait_seconds |-> cfg.alone_wait_seconds,
     empty_meeting_timeout |-> cfg.empty_meeting_timeout,
     waiting_room_timeout |-> DEFAULT_WAITING_ROOM_TIMEOUT]

\* TelemostSession.__init__: the fields take the arguments
SessionConstructed(args) ==
    /\ waiting_room_timeout' = args.waiting_room_timeout
    /\ alone_wait_seconds' = args.alone_wait_seconds
    /\ empty_meeting_timeout' = args.empty_meeting_timeout
    /\ UNCHANGED wait_for_end

\* TelemostSession(...) and __aenter__ (_setup_browser)
EnterScope ==
    /\ UNCHANGED transcribeVars
    /\ ppc = "enter"
    /\ \/ /\ SessionConstructed(SessionArguments(config))
          /\ resources' = Resources
          /\ ppc' = "session"
          /\ pc' = "navigate"
          /\ UNCHANGED perror
       \/ \E held \in SetupFailures :
          /\ IF held = {}
             THEN UNCHANGED configVars
             ELSE SessionConstructed(SessionArguments(config))
          /\ resources' = held
          /\ ppc' = "scope_exited"
          /\ perror' = IF held = {} THEN "ValueError" ELSE "PlaywrightError"
          /\ UNCHANGED pc
    /\ UNCHANGED <<error, interrupted, clockVars, events, joinVars,
                   monitorVars, page_closed, recording, exit_code, keep_audio,
                   audio_path_set, config>>

\* join_and_record up to _click_join: navigation and the pre-join flow
JoinMeeting ==
    /\ UNCHANGED <<transcribeVars, pipelineVars>>
    /\ pc = "navigate"
    /\ \E outcome \in {"ok", "failed", "closed"} :
        /\ page_closed' = (outcome = "closed")
        /\ IF outcome = "ok"
           THEN pc' = "wait_for_connection" /\ error' = error
           ELSE pc' = "raised" /\ error' = "PlaywrightError"
    /\ UNCHANGED <<configVars, interrupted, clockVars, events, joinVars,
                   monitorVars, recording>>

\* the end of the with block: audio_path = recording.audio_path when
\* join_and_record returned, then __aexit__ (_cleanup)
ExitScope ==
    /\ UNCHANGED <<sessionVars, transcribeVars>>
    /\ ppc = "session"
    /\ pc \in {"returned", "raised"}
    /\ audio_path_set' = (pc = "returned")
    /\ \E failing \in ReleaseFailures :
        /\ resources' = resources \cap CleanupAfter(failing)
        /\ perror' = IF failing # "none" THEN "PlaywrightError"
                     ELSE IF pc = "raised" THEN error ELSE "none"
    /\ ppc' = "scope_exited"
    /\ UNCHANGED <<exit_code, keep_audio, config>>

ScopeNext ==
    \/ EnterScope
    \/ JoinMeeting
    \/ WaitForConnectionPoll
    \/ WaitForConnectionTimeout
    \/ StartRecording
    \/ WaitForEndPoll
    \/ RecordUntilStoppedSleep
    \/ Interrupt
    \/ GetRecording
    \/ ExitScope

IdleTranscriber ==
    /\ tpc = "idle"
    /\ tresult = NoResult
    /\ terror = "none"
    /\ input_exists = FALSE
    /\ files = {}
    /\ next_path = 1
    /\ language = "ru"
    /\ mp3_path = -1
    /\ file_size = 0
    /\ duration = 0
    /\ target_segment_duration = 0
    /\ silence_points = <<>>
    /\ segments = <<>>
    /\ all_texts = <<>>
    /\ total_duration = 0
    /\ detected_language = "none"
    /\ sp_index = 1
    /\ segment_start = 0
    /\ current_start = 0
    /\ split_segments = <<>>
    /\ split_caller = "none"
    /\ attempt = 0
    /\ seg_index = 0
    /\ calls = <<>>

IdlePipeline ==
    /\ ppc = "idle"
    /\ perror = "none"
    /\ exit_code = -1
    /\ keep_audio = FALSE
    /\ audio_path_set = FALSE
    /\ resources = {}
    /\ config = NoConfig

Init == SessionInit /\ IdleTranscriber /\ IdlePipeline
Next == SessionNext
Spec == Init /\ [][Next]_vars

IdleSession ==
    /\ waiting_room_timeout = 1
    /\ alone_wait_seconds = 1
    /\ empty_meeting_timeout = 1
    /\ wait_for_end = TRUE
    /\ pc = "idle"
    /\ FreshSession

TInit == TranscribeInit /\ IdleSession /\ IdlePipeline
TNext == TranscribeNext
TranscribeSpec == TInit /\ [][TNext]_vars

\* no session object has been constructed yet
NoSession ==
    /\ waiting_room_timeout = 0
    /\ alone_wait_seconds = 0
    /\ empty_meeting_timeout = 0

\* async with TelemostSession(...) as session:
\*     await session.join_and_record(wait_for_end)
ScopeInit ==
    /\ NoSession
    /\ config \in Configs
    /\ wait_for_end \in BOOLEAN
    /\ pc = "idle"
    /\ FreshSession
    /\ IdleTranscriber
    /\ ppc = "enter"
    /\ perror = "none"
    /\ exit_code = -1
    /\ keep_audio = FALSE
    /\ audio_path_set = FALSE
    /\ resources = {}

ScopeSpec == ScopeInit /\ [][ScopeNext]_vars

\* ========================================================================
\* The pipeline: cli.py, main and _run_recording
\* ========================================================================
\* main: Config.load
ConfigLoad ==
    /\ UNCHANGED <<sessionVars, transcribeVars>>
    /\ ppc = "config"
    /\ \/ ppc' = "enter" /\ config' \in Configs /\ UNCHANGED exit_code
       \/ ppc' = "exited" /\ exit_code' = 1 /\ UNCHANGED config
    /\ UNCHANGED <<perror, keep_audio, audio_path_set, resources>>

CanTranscribeEarly(position, err) ==
    position \in {"session", "scope_exited"} /\ err = "none"

\* the statements after the with block run when it raised nothing
CanTranscribe(position, err) == position = "scope_exited" /\ err = "none"

\* once the with statement is left nothing reads the session object or
\* the meeting settings any more: they are dropped from the state
DropSession ==
    /\ config' = NoConfig
    /\ pc' = "idle"
    /\ error' = "none"
    /\ now' = 0
    /\ started_at' = -1
    /\ ended_at' = -1
    /\ duration_seconds' = -1
    /\ events' = <<>>
    /\ i' = 0
    /\ has_connection_no_audio' = FALSE
    /\ alone_count' = 0
    /\ total_alone_time' = 0
    /\ had_participants' = FALSE
    /\ page_closed' = FALSE
    /\ recording' = FALSE
    /\ joinPolls' = <<>>
    /\ monPolls' = <<>>

\* _run_recording after the with block: GroqTranscriber(...) and the call
\* of transcribe(audio_path)
BeginTranscribe ==
    /\ CanTranscribe(ppc, perror)
    /\ ppc' = "transcribe"
    /\ tpc' = "convert"
    /\ DropSession
    /\ UNCHANGED <<configVars, interrupted, input_exists, tresult, terror, files, next_path,
                   inputVars, segments, absorbVars, createVars, splitVars,
                   attempt, seg_index, calls,
                   perror, exit_code, keep_audio, audio_path_set, resources>>

\* the task is cancelled (user interrupt) while transcribe() is pending:
\* CancelledError passes every except clause, the finally blocks that have
\* been entered run
TranscribeInterrupt ==
    /\ UNCHANGED <<sessionVars, pipelineVars>>
    /\ tpc \notin {"idle", "done"}
    /\ tpc' = "done"
    /\ terror' = "CancelledError"
    /\ IF tpc = "convert"
       THEN \E leftover \in BOOLEAN :
               /\ files' = IF leftover THEN files \cup {next_path} ELSE files
               /\ next_path' = next_path + 1
               /\ UNCHANGED input_exists
       ELSE /\ files' = IF tpc = "segment"
                        THEN TranscribeFinally(SegmentedFinally(files, segments), mp3_path)
                        ELSE TranscribeFinally(files, mp3_path)
            /\ input_exists' = InputAfterFinally(
                  IF tpc = "segment"
                  THEN InputAfterSegmentedFinally(input_exists, segments)
                  ELSE input_exists, mp3_path)
            /\ UNCHANGED next_path
    /\ UNCHANGED <<tresult, inputVars, segments, absorbVars,
                   createVars, splitVars, attempt, seg_index, calls>>

KeepsArtifactAlways(exists, assigned, keep) == exists

\* _run_recording, finally: if audio_path and audio_path.exists():
\* unlink unless keep_audio
ArtifactAfterFinally(exists, assigned, keep) ==
    IF assigned /\ exists /\ ~keep THEN FALSE ELSE exists

\* once transcribe() is over only its result and the files it left on the
\* disk remain: its locals and the call log are dropped from the state
DropEngine ==
    /\ mp3_path' = -1
    /\ file_size' = 0
    /\ duration' = 0
    /\ target_segment_duration' = 0
    /\ silence_points' = <<>>
    /\ segments' = <<>>
    /\ all_texts' = <<>>
    /\ total_duration' = 0
    /\ detected_language' = "none"
    /\ sp_index' = 1
    /\ segment_start' = 0
    /\ current_start' = 0
    /\ split_segments' = <<>>
    /\ split_caller' = "none"
    /\ attempt' = 0
    /\ seg_index' = 0
    /\ calls' = <<>>

\* _run_recording: format_output and return, or an exception on its way
\* out; the finally block
RunRecordingFinally ==
    /\ UNCHANGED <<configVars, interrupted, tpc, tresult, terror, files, next_path,
                   language>>
    /\ \/ ppc = "scope_exited" /\ perror # "none" /\ perror' = perror
       \/ ppc = "transcribe" /\ tpc = "done" /\ perror' = terror
    /\ DropSession
    /\ DropEngine
    /\ \E keep \in BOOLEAN :
        /\ keep_audio' = keep
        /\ input_exists' = ArtifactAfterFinally(input_exists, audio_path_set, keep)
    /\ ppc' = "main"
    /\ UNCHANGED <<exit_code, audio_path_set, resources>>

\* main: the except clauses around asyncio.run
ExitCodeOf(err) ==
    CASE err = "none" -> 0
      [] err = "CancelledError" -> 130
      [] err = "NoParticipantsError" -> 2
      [] OTHER -> 1

\* main after asyncio.run: the output is written or printed, or the
\* exception is mapped to the exit code. When the run was interrupted and
\* _cleanup raised on the way out, the interpreter's version decides
\* whether main sees KeyboardInterrupt or the cleanup error.
MainExit ==
    /\ UNCHANGED <<sessionVars, transcribeVars>>
    /\ ppc = "main"
    /\ \E written \in BOOLEAN :
        /\ perror # "none" => written
        /\ exit_code' \in
              IF perror = "none" THEN {IF written THEN 0 ELSE 1}
              ELSE IF interrupted THEN {ExitCodeOf(perror), 130}
              ELSE {ExitCodeOf(perror)}
    /\ ppc' = "exited"
    /\ UNCHANGED <<perror, keep_audio, audio_path_set, resources, config>>

PipelineNext ==
    \/ ConfigLoad
    \/ EnterScope
    \/ JoinMeeting
    \/ WaitForConnectionPoll
    \/ WaitForConnectionTimeout
    \/ StartRecording
    \/ WaitForEndPoll
    \/ Interrupt
    \/ GetRecording
    \/ ExitScope
    \/ BeginTranscribe
    \/ ConvertToMp3
    \/ TranscribeSingleAttempt
    \/ GetAudioDuration
    \/ DetectSilence
    \/ CreateSegmentsStep
    \/ CreateSegmentsTail
    \/ SplitStep
    \/ SplitReturn
    \/ TranscribeInterrupt
    \/ RunRecordingFinally
    \/ MainExit

PipelineInit ==
    /\ NoSession
    /\ config = NoConfig
    /\ wait_for_end = TRUE
    /\ pc = "idle"
    /\ FreshSession
    /\ IdleTranscriber
    /\ ppc = "config"
    /\ perror = "none"
    /\ exit_code = -1
    /\ keep_audio = FALSE
    /\ audio_path_set = FALSE
    /\ resources = {}

PipelineSpec == PipelineInit /\ [][PipelineNext]_vars
\* ========================================================================
\* Properties of the session controller (checked under Spec)
\* ========================================================================
ZeroConnectionPoll(poll) == poll.kind = "status" /\ poll.peerConnections = 0
TracklessPoll(poll) ==
    poll.kind = "status" /\ poll.peerConnections > 0 /\ poll.tracksConnected = 0

AllPolls(polls, P(_)) == \A n \in 1..Len(polls) : P(polls[n])

\* the monitoring loop was left by a break (not by an exception)
LeftByBreak ==
    \/ pc \in {"get_recording", "returned"}
    \/ pc = "raised" /\ recording /\ monPolls # <<>>
          /\ monPolls[Len(monPolls)].kind # "closed"

\* the monitoring polls since the last poll that saw peers (0: no such poll)
LastPeersPoll ==
    LET S == {n \in 1..Len(monPolls) : PeersPoll(monPolls[n])}
    IN  IF S = {} THEN 0 ELSE CHOOSE n \in S : \A m \in S : m <= n

AloneSincePeers ==
    /\ LastPeersPoll > 0
    /\ \A n \in (LastPeersPoll + 1)..Len(monPolls) : AlonePoll(monPolls[n])

\* C1: when every monitoring poll so far reported participant count 1, the
\* session has failed with NoParticipantsError if and only if the alone
\* time accumulated over these polls (STATUS_CHECK_INTERVAL each) has
\* reached empty_meeting_timeout.
C1_NoParticipantsAtTimeout ==
    (monPolls # <<>> /\ AllPolls(monPolls, AlonePoll)) =>
        ((pc = "raised" /\ error = "NoParticipantsError")
            <=> Len(monPolls) * STATUS_CHECK_INTERVAL >= empty_meeting_timeout)

\* C2: when every joining poll reported zero connections and the joining
\* phase is over, the session has failed with the connection-timeout error
\* after exactly waiting_room_timeout polls and recording was never started.
C2_ConnectionTimeoutFails ==
    (AllPolls(joinPolls, ZeroConnectionPoll) /\ pc # "wait_for_connection") =>
        /\ pc = "raised"
        /\ error = "RuntimeError"
        /\ Len(joinPolls) = waiting_room_timeout
        /\ ~recording

\* C3: when every joining poll reported a connection without audio tracks,
\* the joining phase never ends as connected: it is still polling, or it
\* has failed with WaitingRoomTimeoutError after exactly
\* waiting_room_timeout polls; recording is never started.
C3_WaitingRoomTimeout ==
    (joinPolls # <<>> /\ AllPolls(joinPolls, TracklessPoll)) =>
        /\ ~recording
        /\ \/ pc = "wait_for_connection" /\ Len(joinPolls) <= waiting_room_timeout
           \/ /\ pc = "raised"
              /\ error = "WaitingRoomTimeoutError"
              /\ Len(joinPolls) = waiting_room_timeout

C3_Witness ==
    /\ pc = "raised"
    /\ error = "WaitingRoomTimeoutError"
    /\ Len(joinPolls) = 2
    /\ AllPolls(joinPolls, TracklessPoll)

\* C4 as stated: once peers were seen and every later poll is an alone
\* poll, the monitoring loop is left by a break exactly when the number of
\* these alone polls reaches max(1, ceil(alone_wait_seconds / interval)).
C4_CeilAlonePolls ==
    AloneSincePeers =>
        (LeftByBreak <=>
            Len(monPolls) - LastPeersPoll >=
                Max(1, (alone_wait_seconds + STATUS_CHECK_INTERVAL - 1)
                            \div STATUS_CHECK_INTERVAL))

\* C4 as amended: once peers were seen and every later poll is an alone
\* poll, the monitoring loop is left by a break exactly when the number of
\* these alone polls reaches max(1, floor(alone_wait_seconds / interval)).
C4_FloorAlonePolls ==
    AloneSincePeers =>
        (LeftByBreak <=>
            Len(monPolls) - LastPeersPoll >=
                Max(1, alone_wait_seconds \div STATUS_CHECK_INTERVAL))

C4_Witness ==
    /\ AloneSincePeers
    /\ pc = "returned"
    /\ alone_wait_seconds = 2 * STATUS_CHECK_INTERVAL + 2
    /\ Len(monPolls) - LastPeersPoll = 2
\* the probe was unreachable at this poll because the page was torn down
ClosedPoll(poll) == poll.kind = "closed"

\* C13: a poll, joining or monitoring, at which the page is found torn
\* down is the last poll made, and at it the controller has failed with
\* the disconnection error (RuntimeError), not with any other error.
C13_ClosedProbeFailsAtOnce ==
    /\ \A n \in 1..Len(joinPolls) :
          ClosedPoll(joinPolls[n]) =>
              /\ n = Len(joinPolls)
              /\ monPolls = <<>>
              /\ pc = "raised"
              /\ error = "RuntimeError"
    /\ \A n \in 1..Len(monPolls) :
          ClosedPoll(monPolls[n]) =>
              /\ n = Len(monPolls)
              /\ pc = "raised"
              /\ error = "RuntimeError"

SomeTracklessPoll == \E n \in 1..Len(joinPolls) : TracklessPoll(joinPolls[n])

\* C18: the waiting-room flag is set exactly when some joining poll so far
\* reported a connection without audio tracks, whatever the later polls
\* reported; and when such a poll has been made and the joining phase is
\* over, either the last joining poll reported a connection with audio
\* tracks, or waiting_room_timeout polls were made, the session failed
\* with WaitingRoomTimeoutError and recording was never started.
C18_WaitingRoomSticky ==
    /\ has_connection_no_audio <=> SomeTracklessPoll
    /\ (SomeTracklessPoll /\ pc # "wait_for_connection") =>
          LET last == joinPolls[Len(joinPolls)]
          IN  \/ last.kind = "status" /\ last.peerConnections > 0
                    /\ last.tracksConnected > 0
              \/ /\ pc = "raised"
                 /\ error = "WaitingRoomTimeoutError"
                 /\ Len(joinPolls) = waiting_room_timeout
                 /\ ~recording
                 /\ monPolls = <<>>

C18_Witness ==
    /\ pc = "raised"
    /\ error = "WaitingRoomTimeoutError"
    /\ Len(joinPolls) = 2
    /\ TracklessPoll(joinPolls[1])
    /\ joinPolls[2].kind \in {"error", "closed"} \/ ZeroConnectionPoll(joinPolls[2])

\* the joining phase is over and did not fail with the waiting-room error
JoinedAsConnected ==
    pc # "wait_for_connection" /\ ~(pc = "raised" /\ error = "WaitingRoomTimeoutError")

\* C19: a joining poll that reports a connection with audio tracks is the
\* last joining poll and ends the joining phase as connected; when the last
\* joining poll reported a connection without audio tracks the joining
\* phase has not ended as connected; and at most waiting_room_timeout
\* joining polls are made, failed status queries included.
C19_JoiningPolls ==
    /\ Len(joinPolls) <= waiting_room_timeout
    /\ \A n \in 1..Len(joinPolls) :
          (joinPolls[n].kind = "status" /\ joinPolls[n].peerConnections > 0
                /\ joinPolls[n].tracksConnected > 0) =>
              /\ n = Len(joinPolls)
              /\ JoinedAsConnected
    /\ (joinPolls # <<>> /\ TracklessPoll(joinPolls[Len(joinPolls)])) =>
          ~JoinedAsConnected

C19_Witness ==
    /\ waiting_room_timeout = 2
    /\ Len(joinPolls) = 2
    /\ joinPolls[1].kind = "error"
    /\ joinPolls[2].kind = "status" /\ joinPolls[2].tracksConnected > 0
    /\ pc = "wait_for_end"
    /\ monPolls # <<>>

\* the positions in the milestone log of the milestones of one kind
EventsOf(ev) == {n \in 1..Len(events) : events[n].ev = ev}

\* every milestone of kind a comes before every milestone of kind b, in
\* the log and on the clock
Precedes(a, b) ==
    \A m \in EventsOf(a), n \in EventsOf(b) : m < n /\ events[m].at <= events[n].at

\* the kinds of the milestones passed so far, in order
EventKinds == [n \in 1..Len(events) |-> events[n].ev]

\* C20: when recording has started, the first milestones are, in this
\* order: _wait_for_connection returned, the settle delay of
\* AUDIO_TRACKS_WAIT seconds was served, started_at was sampled, the
\* recording primitive was invoked; started_at is later than the last
\* joining poll by the settle delay (a joining poll that did not connect is
\* followed by a sleep of one second); every monitoring poll comes after the
\* recording start, the first one STATUS_CHECK_INTERVAL seconds after it;
\* and no monitoring poll is made unless recording has started.
C20_RecordingStartOrder ==
    /\ monPolls # <<>> => recording
    /\ recording =>
          /\ Len(events) >= 4
          /\ SubSeq(EventKinds, 1, 4) = <<"connected", "settled", "started_at", "recording">>
          /\ events[1].at = i * TicksPerSecond
          /\ events[2].at = events[1].at + AUDIO_TRACKS_WAIT * TicksPerSecond
          /\ events[3].at = started_at
          /\ started_at >= events[2].at
          /\ started_at > events[1].at
          /\ events[4].at >= started_at
          /\ \A n \in 5..Len(events) :
                events[n].ev = "poll" =>
                    events[n].at >= events[4].at + (n - 4) * STATUS_CHECK_INTERVAL * TicksPerSecond
          /\ Cardinality(EventsOf("poll")) = Len(monPolls)

C20_Witness ==
    /\ recording
    /\ Len(joinPolls) = 2
    /\ joinPolls[2].kind = "status" /\ joinPolls[2].tracksConnected > 0
    /\ started_at = Seconds(1 + AUDIO_TRACKS_WAIT)
    /\ Len(monPolls) = 1
    /\ events[5].at = started_at + 60 + Seconds(STATUS_CHECK_INTERVAL)

\* the alone polls among the monitoring polls after the k-th
AlonePollsAfter(k) == {n \in (k + 1)..Len(monPolls) : AlonePoll(monPolls[n])}

\* the monitoring loop was left by the break of an alone poll
LeftAtAlonePoll ==
    monPolls # <<>> /\ AlonePoll(monPolls[Len(monPolls)]) /\ LeftByBreak

\* C21: had_participants is true exactly when some monitoring poll so far
\* saw more than one participant (so it never goes back to false); right
\* after such a poll alone_count is 0 and the loop goes on; once peers were
\* seen alone_count counts the alone polls after the last such poll only,
\* no poll can raise NoParticipantsError and the session has not failed
\* with it; and the loop is left at an alone poll only when peers were
\* seen and the alone polls after the last peers poll have reached
\* max_alone.
C21_PeersResetAlone ==
    /\ had_participants <=> LastPeersPoll > 0
    /\ (monPolls # <<>> /\ PeersPoll(monPolls[Len(monPolls)])) =>
          /\ alone_count = 0
          /\ had_participants
          /\ pc = "wait_for_end"
    /\ LastPeersPoll > 0 =>
          /\ alone_count = Cardinality(AlonePollsAfter(LastPeersPoll))
          /\ error # "NoParticipantsError"
          /\ \A poll \in MonPollResults :
                StatusCheckRaises(poll, TotalAloneAfter(poll, total_alone_time),
                                  had_participants) # "NoParticipantsError"
    /\ LeftAtAlonePoll =>
          /\ LastPeersPoll > 0
          /\ Cardinality(AlonePollsAfter(LastPeersPoll)) >= MaxAlone(alone_wait_seconds)

C21_Witness ==
    /\ Len(monPolls) = 4
    /\ AlonePoll(monPolls[1]) /\ AlonePoll(monPolls[2])
    /\ PeersPoll(monPolls[3])
    /\ AlonePoll(monPolls[4])
    /\ alone_wait_seconds = 2 * STATUS_CHECK_INTERVAL
    /\ alone_count = 1
    /\ had_participants
    /\ pc = "wait_for_end"

\* the participant count was unknown at this poll
UnknownPoll(poll) == poll.kind = "status" /\ poll.participant_count < 0

\* every monitoring poll after the last peers poll is an alone poll or a
\* poll with unknown count
AloneOrUnknownSincePeers ==
    \A n \in (LastPeersPoll + 1)..Len(monPolls) :
        AlonePoll(monPolls[n]) \/ UnknownPoll(monPolls[n])

\* C22: the accumulators are functions of the alone and peers polls alone:
\* alone_count is the number of alone polls after the last peers poll and
\* total_alone_time the number of all alone polls times the poll interval,
\* however many polls with unknown count lie between them; after a poll
\* with unknown count the loop goes on without error; and when only alone
\* polls and polls with unknown count follow the last peers poll, the loop
\* is left exactly when the alone polls among them reach max_alone.
C22_UnknownCountFrame ==
    /\ alone_count = Cardinality(AlonePollsAfter(LastPeersPoll))
    /\ total_alone_time = STATUS_CHECK_INTERVAL * Cardinality(AlonePollsAfter(0))
    /\ (monPolls # <<>> /\ UnknownPoll(monPolls[Len(monPolls)])) =>
          pc = "wait_for_end" /\ error = "none"
    /\ (LastPeersPoll > 0 /\ AloneOrUnknownSincePeers) =>
          (LeftByBreak <=>
              Cardinality(AlonePollsAfter(LastPeersPoll)) >= MaxAlone(alone_wait_seconds))

C22_Witness ==
    /\ Len(monPolls) = 4
    /\ PeersPoll(monPolls[1])
    /\ AlonePoll(monPolls[2])
    /\ UnknownPoll(monPolls[3])
    /\ AlonePoll(monPolls[4])
    /\ alone_wait_seconds = 2 * STATUS_CHECK_INTERVAL
    /\ alone_count = 2
    /\ total_alone_time = 2 * STATUS_CHECK_INTERVAL
    /\ pc = "get_recording"

\* the end-of-call check was true at this poll
EndedPoll(poll) == poll.kind = "ended"

\* C23: the end-of-call check is true exactly when an end-of-meeting
\* element is visible or the address has the host in it and no call path;
\* a monitoring poll at which it is true is the last poll made, leaves the
\* loop by a break without error, and leaves the accumulators as the
\* polls before it made them, also when no peer was seen and one more
\* alone poll would have reached empty_meeting_timeout; and the loop is
\* left by a break only at such a poll or at an alone poll after
\* peers were seen with alone_count at max_alone.
C23_EndOfCallFirst ==
    /\ \A o \in EndChecks :
          CheckMeetingEnded(o) <=> (o.end_screen \/ (o.host /\ ~o.call_path))
    /\ \A n \in 1..Len(monPolls) :
          EndedPoll(monPolls[n]) =>
              /\ n = Len(monPolls)
              /\ LeftByBreak
              /\ pc = "raised" => error \in {"RuntimeError", "PlaywrightError"}
              /\ events[Len(events)].ev \in {"poll", "get_recording"}
              /\ alone_count = Cardinality(AlonePollsAfter(LastPeersPoll))
              /\ total_alone_time = STATUS_CHECK_INTERVAL * Cardinality(AlonePollsAfter(0))
              /\ had_participants <=> LastPeersPoll > 0
    /\ (recording /\ LeftByBreak) =>
          \/ EndedPoll(monPolls[Len(monPolls)])
          \/ /\ AlonePoll(monPolls[Len(monPolls)])
             /\ had_participants
             /\ alone_count >= MaxAlone(alone_wait_seconds)

C23_Witness ==
    /\ Len(monPolls) = 2
    /\ AlonePoll(monPolls[1])
    /\ EndedPoll(monPolls[2])
    /\ monPolls[2].participant_count = 1
    /\ empty_meeting_timeout = 2 * STATUS_CHECK_INTERVAL
    /\ ~had_participants
    /\ total_alone_time = STATUS_CHECK_INTERVAL
    /\ pc = "returned"

\* some joining poll saw a connection with audio tracks
SomeConnectedPoll == \E n \in 1..Len(joinPolls) : ConnectedPoll(joinPolls[n])

\* C30: the recording primitive is invoked, and started_at sampled, only
\* when some joining poll has seen a connection with audio tracks.
C30_ArmedOnlyWhenConnected ==
    (recording \/ started_at # -1) => SomeConnectedPoll

\* ========================================================================
\* Properties of the transcription engine (checked under TranscribeSpec)
\* ========================================================================
\* the segment list has been handed to the transcription loop
SegmentsHanded == tpc \in {"segment", "done"} /\ segments # <<>>

ClientCallsFor(blob) == {n \in CallsOf("client") : calls[n].arg = blob}
Blobs == {calls[n].arg : n \in CallsOf("client")}
FailedCallsFor(blob) == {n \in ClientCallsFor(blob) : ~calls[n].ok}
FailedExtractions == {n \in CallsOf("extract") : ~calls[n].ok}

\* C5: once transcribe() has returned or raised, no temporary file that it
\* created (conversion output, segment) exists any more.
C5_NoTempFilesRemain == tpc = "done" => files = {}

\* C6: no segment in the list handed to the transcription loop is larger
\* than MAX_FILE_SIZE.
C6_SegmentsUnderCeiling ==
    SegmentsHanded => \A n \in 1..Len(segments) : segments[n].size <= MAX_FILE_SIZE

C8_DirectSingleCall ==
    (tpc = "done" /\ mp3_path # -1 /\ file_size < MAX_FILE_SIZE
        /\ CallsOf("client") # {}
        /\ calls[CHOOSE n \in CallsOf("client") : \A m \in CallsOf("client") : n <= m].ok) =>
        /\ Cardinality(CallsOf("client")) = 1
        /\ CallsOf("ffprobe") \cup CallsOf("silencedetect") \cup CallsOf("extract") = {}
        /\ terror = "none"
        /\ \E n \in CallsOf("client") :
              /\ tresult.text = Strip(calls[n].resp.text)
              /\ tresult.language = calls[n].resp.language
              /\ tresult.duration = calls[n].resp.duration

C8_Witness ==
    /\ tpc = "done"
    /\ file_size < MAX_FILE_SIZE
    /\ Cardinality(CallsOf("client")) = 1
    /\ \E n \in CallsOf("client") : calls[n].resp.text # Strip(calls[n].resp.text)
    /\ tresult.text # <<>>

\* the n-th call is the MAX_RETRIES-th failed client call for its blob
Exhausted(n) ==
    /\ calls[n].op = "client"
    /\ ~calls[n].ok
    /\ Cardinality({m \in FailedCallsFor(calls[n].arg) : m <= n}) = 3

\* C9: in segmented transcription, when the client call for a segment has
\* failed on every attempt, that call is the last call made: transcribe()
\* has raised the fatal error and returned no result.
C9_SegmentFailureAborts ==
    file_size > MAX_FILE_SIZE =>
        \A n \in 1..Len(calls) :
            Exhausted(n) =>
                /\ n = Len(calls)
                /\ tpc = "done"
                /\ terror = "RuntimeError"
                /\ tresult = NoResult

C9_Witness ==
    /\ tpc = "done"
    /\ terror = "RuntimeError"
    /\ Len(segments) >= 3
    /\ seg_index = 2
    /\ all_texts # <<>>
    /\ Exhausted(Len(calls))

\* C10: for each audio blob there are at most 3 client calls and none after
\* a successful one; a failed call that is the first or second for its blob
\* is followed by a sleep of 2 or 4 seconds, the third by nothing; no other
\* sleep is made; and the fatal error is raised exactly when some blob has
\* 3 failed calls.
C10_RetryPolicy ==
    /\ \A blob \in Blobs :
          /\ Cardinality(ClientCallsFor(blob)) <= 3
          /\ \A n \in ClientCallsFor(blob) :
                LET nth == Cardinality({m \in ClientCallsFor(blob) : m <= n})
                IN  IF calls[n].ok
                    THEN \A m \in ClientCallsFor(blob) : m <= n
                    ELSE IF nth < 3
                    THEN /\ n < Len(calls)
                         /\ calls[n + 1].op = "sleep"
                         /\ calls[n + 1].arg = 2 ^ nth
                    ELSE n = Len(calls)
    /\ \A n \in CallsOf("sleep") :
          n > 1 /\ calls[n - 1].op = "client" /\ ~calls[n - 1].ok
    /\ Blobs # {} =>
          (terror = "RuntimeError" <=>
              \E blob \in Blobs : Cardinality(FailedCallsFor(blob)) = 3)

C10_Witness ==
    /\ tpc = "done"
    /\ terror = "RuntimeError"
    /\ \E n \in CallsOf("sleep") : calls[n].arg = 2
    /\ \E n \in CallsOf("sleep") : calls[n].arg = 4
    /\ Cardinality(CallsOf("client")) = 3

\* the successful client calls, in the order they were made
OkClientCalls == SortedSeq({n \in CallsOf("client") : calls[n].ok})

RECURSIVE SpacedTexts(_)
\* the non-empty stripped texts of the given calls, each behind one space
SpacedTexts(ns) ==
    IF ns = <<>> THEN <<>>
    ELSE LET t == Strip(calls[Head(ns)].resp.text)
         IN  (IF t = <<>> THEN <<>> ELSE <<" ">> \o t) \o SpacedTexts(Tail(ns))

RECURSIVE SumDurations(_)
SumDurations(ns) ==
    IF ns = <<>> THEN 0 ELSE calls[Head(ns)].resp.duration + SumDurations(Tail(ns))

\* segmented transcription has returned a result
SegmentedSuccess ==
    tpc = "done" /\ terror = "none" /\ file_size > MAX_FILE_SIZE /\ segments # <<>>

\* C11: when segmented transcription returns a result, there is exactly
\* one successful client call per segment, made in the order of the
\* segments (which is the order of their start times); the final text is
\* the non-empty stripped texts of those calls in that order with exactly
\* one space between neighbours; the final duration is the sum of the
\* durations of all of them, blank ones included; and the final language
\* is the language of the last one.
C11_Reassembly ==
    SegmentedSuccess =>
        LET ok == OkClientCalls
            sp == SpacedTexts(ok)
        IN  /\ Len(ok) = Len(segments)
            /\ \A k \in 1..Len(ok) : calls[ok[k]].arg = segments[k].path
            /\ \A k \in 1..(Len(segments) - 1) :
                  segments[k].start < segments[k + 1].start
            /\ tresult.text = IF sp = <<>> THEN <<>> ELSE Tail(sp)
            /\ tresult.duration = SumDurations(ok)
            /\ tresult.language = calls[ok[Len(ok)]].resp.language

C11_Witness ==
    /\ SegmentedSuccess
    /\ Len(segments) >= 3
    /\ Len(all_texts) = 2
    /\ Len(tresult.text) = 3
    /\ tresult.text[1] # tresult.text[3]
    /\ tresult.language = "de"
    /\ tresult.duration = 7

\* C24: a conversion that exits with a non-zero code or times out is the
\* only call transcribe() makes: it has raised the fatal error, returned
\* no result and made no client call; and the conversion is run exactly
\* when the artifact is not an mp3 file already, as the first call.
C24_ConversionFailureFatal ==
    /\ \A n \in CallsOf("convert") :
          /\ n = 1
          /\ ~calls[n].ok =>
                /\ Len(calls) = 1
                /\ tpc = "done"
                /\ terror = "RuntimeError"
                /\ tresult = NoResult
                /\ mp3_path = -1
    /\ mp3_path = InputPath => CallsOf("convert") = {}
    /\ (tpc # "convert" /\ mp3_path # InputPath) => CallsOf("convert") = {1}

C24_Witness ==
    /\ tpc = "done"
    /\ terror = "RuntimeError"
    /\ Len(calls) = 1
    /\ calls[1].op = "convert" /\ ~calls[1].ok
    /\ input_exists

\* the audio-tool invocations that failed (non-zero exit or timeout)
FailedToolCalls ==
    {n \in 1..Len(calls) :
        calls[n].op \in {"convert", "ffprobe", "silencedetect", "extract"} /\ ~calls[n].ok}

\* C25: an audio-tool invocation that fails is the last call transcribe()
\* makes: transcribe() has raised an error and returned no result.
C25_ToolFailuresHard ==
    \A n \in FailedToolCalls :
        /\ n = Len(calls)
        /\ tpc = "done"
        /\ terror # "none"
        /\ tresult = NoResult

\* the silence points walked so far
Walked == 1..(sp_index - 1)

\* the position of the last cut made before the k-th silence point
LastCutBefore(k) ==
    LET S == {segments[n].end : n \in 1..Len(segments)}
        B == {e \in S : e < silence_points[k]}
    IN  IF B = {} THEN 0 ELSE CHOOSE e \in B : \A f \in B : f <= e

\* the span from the last cut to the k-th silence point is at least 80% of
\* the target segment duration
SpanReached(k) ==
    5 * (silence_points[k] - LastCutBefore(k)) >= 4 * target_segment_duration

\* the extractions tried for the candidate segment ending at the k-th
\* silence point
CandidateCalls(k) ==
    {n \in CallsOf("extract") :
        calls[n].from = LastCutBefore(k) /\ calls[n].to = silence_points[k]}

CutAt(k) == \E n \in 1..Len(segments) : segments[n].end = silence_points[k]

\* C26: during the walk over the silence points, a cut has been made at a
\* walked point exactly when the span since the last cut before it is at
\* least 80% of the target segment duration and the segment extracted for
\* it is smaller than MAX_FILE_SIZE (an extraction is tried exactly when
\* the span is reached); every segment made so far starts at the previous
\* cut (the first at 0), ends on a silence point, is at least 80% of the
\* target long and smaller than MAX_FILE_SIZE; and segment_start is the
\* end of the last segment made, so a rejected candidate has not moved it.
C26_SilenceCuts ==
    tpc = "create_segments" =>
        /\ \A k \in Walked :
              /\ SpanReached(k) <=> CandidateCalls(k) # {}
              /\ CutAt(k) <=>
                    /\ SpanReached(k)
                    /\ \E n \in CandidateCalls(k) :
                          calls[n].ok /\ calls[n].arg < MAX_FILE_SIZE
        /\ \A n \in 1..Len(segments) :
              /\ segments[n].start = IF n = 1 THEN 0 ELSE segments[n - 1].end
              /\ \E k \in Walked : segments[n].end = silence_points[k]
              /\ 5 * (segments[n].end - segments[n].start) >= 4 * target_segment_duration
              /\ segments[n].size < MAX_FILE_SIZE
        /\ segment_start = IF segments = <<>> THEN 0 ELSE segments[Len(segments)].end

C26_Witness ==
    /\ tpc = "create_segments"
    /\ Len(silence_points) = 2
    /\ sp_index = 3
    /\ 5 * silence_points[1] >= 4 * target_segment_duration
    /\ \E n \in CallsOf("extract") :
          /\ calls[n].to = silence_points[1]
          /\ calls[n].ok /\ calls[n].arg >= MAX_FILE_SIZE
    /\ Len(segments) = 1
    /\ segments[1].start = 0
    /\ segments[1].end = silence_points[2]

\* _create_segments has returned a segment list and the fallback split was
\* not needed
TailHandled ==
    /\ tpc \in {"segment", "done"}
    /\ silence_points # <<>>
    /\ split_caller # "fallback"
    /\ segments # <<>>

\* the tail [segment_start, duration) is more than one second long
TailLong == duration - segment_start > TicksPerSecond

\* the segments made from the tail: those that start at the last cut or later
TailSegments == {n \in 1..Len(segments) : segments[n].start >= segment_start}

\* the extraction of the whole tail: the first one made for its range
TailCalls ==
    {n \in CallsOf("extract") : calls[n].from = segment_start /\ calls[n].to = duration}
TailCall == CHOOSE n \in TailCalls : \A m \in TailCalls : n <= m

\* the temporary file the n-th call was given: paths are handed out in
\* the order of the conversion and the extractions
PathOfCall(n) ==
    Cardinality({m \in 1..n : calls[m].op \in {"convert", "extract"}})

\* the extractions of the sub-ranges of an oversized tail
SubCalls == {n \in CallsOf("extract") : n > TailCall}

\* the k-th fixed-duration sub-range of the tail
SubStart(k) == segment_start + k * target_segment_duration
SubEnd(k) ==
    IF SubStart(k) + target_segment_duration <= duration
    THEN SubStart(k) + target_segment_duration ELSE duration
SubRanges == {k \in 0..(duration \div target_segment_duration) : SubStart(k) < duration}

FixedStart(k) == k * target_segment_duration
FixedEnd(k) ==
    IF FixedStart(k) + target_segment_duration <= duration
    THEN FixedStart(k) + target_segment_duration ELSE duration
FixedRanges == {k \in 0..(duration \div target_segment_duration) : FixedStart(k) < duration}

\* the segments are fixed-duration ranges of the whole file, in order
FixedSegments(segs) ==
    /\ \A n \in 1..Len(segs) :
          \E k \in FixedRanges :
              segs[n].start = FixedStart(k) /\ segs[n].end = FixedEnd(k)
    /\ \A n \in 1..(Len(segs) - 1) : segs[n].end <= segs[n + 1].start

\* no silence point qualified for a cut
NoCutMade == segment_start = 0

\* C28 as stated, for the runs in which every extraction succeeded: when
\* no silence point qualified for a cut, the segments handed to the
\* transcription loop are fixed-duration ranges of the whole file.
C28_FixedRangesWhenNoCut ==
    (SegmentsHanded /\ NoCutMade /\ FailedExtractions = {}) => FixedSegments(segments)

\* C28 as amended: the fallback split starts when no silence point was
\* detected, and only with an empty segment list; its loop advances
\* current_start by at most a target in every iteration, never beyond the
\* total duration, so it terminates; it visits the fixed ranges
\* [k*t, min((k+1)*t, D)) from 0 on, in order; its segments are exactly
\* those of the ranges visited that are at least half a second long and
\* whose extraction succeeded, and they alone are handed to the
\* transcription loop; when silence points were detected and none
\* qualified without the fallback being taken, the segments are the whole
\* file as one segment of at most MAX_FILE_SIZE or fixed-duration ranges
\* of the whole file.
C28_FallbackSplit ==
    /\ [](/\ (tpc \notin {"convert", "single", "duration", "silence"}
                  /\ file_size > MAX_FILE_SIZE /\ silence_points = <<>>) =>
                split_caller = "fallback"
          /\ split_caller = "fallback" =>
                /\ tpc = "split" => segments = <<>>
                /\ tpc # "split" => segments = split_segments
                /\ FixedSegments(split_segments)
                /\ \/ current_start = duration
                   \/ \E k \in FixedRanges : current_start = FixedStart(k)
                /\ \A k \in FixedRanges :
                      (\E n \in 1..Len(split_segments) :
                            split_segments[n].start = FixedStart(k)) <=>
                          /\ FixedStart(k) < current_start
                          /\ 2 * (FixedEnd(k) - FixedStart(k)) >= TicksPerSecond
                          /\ \E n \in CallsOf("extract") :
                                /\ calls[n].from = FixedStart(k)
                                /\ calls[n].to = FixedEnd(k)
                                /\ calls[n].ok
          /\ (SegmentsHanded /\ NoCutMade /\ split_caller # "fallback") =>
                \/ split_caller = "tail" /\ FixedSegments(segments)
                \/ /\ split_caller = "none"
                   /\ Len(segments) = 1
                   /\ segments[1].start = 0 /\ segments[1].end = duration
                   /\ segments[1].size <= MAX_FILE_SIZE)
    /\ [][(tpc = "split" /\ tpc' = "split" /\ split_caller' = split_caller) =>
              /\ current_start' > current_start
              /\ current_start' <= current_start + target_segment_duration
              /\ current_start' <= duration]_vars

C28_Witness ==
    /\ tpc = "done"
    /\ terror = "none"
    /\ split_caller = "fallback"
    /\ silence_points = <<>>
    /\ duration = ArtifactDuration
    /\ Len(segments) = 3
    /\ segments[1].start = 0
    /\ segments[3].start = 2 * target_segment_duration
    /\ segments[3].end = duration
    /\ Cardinality(CallsOf("client")) = 3

\* a time range of at least half a second
HalfSecond(from, to) == 2 * (to - from) >= TicksPerSecond

\* the segments that exist: those of the list and those of the split loop
AllSegments ==
    {segments[n] : n \in 1..Len(segments)}
        \cup {split_segments[n] : n \in 1..Len(split_segments)}

\* C29: every extraction is run for a range of at least half a second,
\* every segment that exists has such a range, and every client call of
\* a segmented transcription is made for such a segment.
C29_NoShortSegment ==
    /\ \A n \in CallsOf("extract") : HalfSecond(calls[n].from, calls[n].to)
    /\ \A seg \in AllSegments : HalfSecond(seg.start, seg.end)
    /\ file_size > MAX_FILE_SIZE =>
          \A n \in CallsOf("client") :
              \E seg \in AllSegments :
                  seg.path = calls[n].arg /\ HalfSecond(seg.start, seg.end)

\* the split loop has passed the last range of the tail, a tenth of a
\* second long
C29_Witness ==
    /\ tpc = "done"
    /\ terror = "none"
    /\ split_caller = "tail"
    /\ duration - segment_start = target_segment_duration + 10
    /\ Len(split_segments) = 1
    /\ Cardinality(CallsOf("client")) = Len(segments)
    /\ ~\E n \in CallsOf("extract") : calls[n].to - calls[n].from = 10
    /\ next_path = Cardinality(CallsOf("extract") \cup CallsOf("convert")) + 2

\* transcribe() has returned a result for an artifact over the ceiling
SegmentedReturn == tpc = "done" /\ terror = "none" /\ file_size > MAX_FILE_SIZE

\* C31: when transcribe() has returned a result for an artifact over the
\* ceiling, at least one segment was produced and at least one client call
\* was made; a failed duration query with no silence point never ends in a
\* returned result with no segment and an empty text.
C31_OversizedNeverEmpty ==
    SegmentedReturn =>
        /\ segments # <<>>
        /\ CallsOf("client") # {}
        /\ ~(duration = 0 /\ silence_points = <<>> /\ tresult.text = <<>>)

\* C34: transcribe() never removes its input file: the input exists in
\* every state, and when it is an mp3 file already no conversion is run,
\* no segment has its path, and it exists when transcribe() has returned
\* or raised, on the direct and on the segmented path.
C34_InputKept ==
    /\ input_exists
    /\ InputPath \notin files
    /\ mp3_path = InputPath =>
          /\ CallsOf("convert") = {}
          /\ InputPath \notin Paths(segments) \cup Paths(split_segments)

\* the segmented transcription of an mp3 input has returned
C34_Witness ==
    /\ SegmentedReturn
    /\ mp3_path = InputPath
    /\ Len(segments) >= 2
    /\ Cardinality(CallsOf("client")) = Len(segments)
    /\ files = {}
    /\ input_exists

\* ========================================================================
\* Properties of the session scope (checked under ScopeSpec)
\* ========================================================================
\* C16: when join_and_record has returned a result, started_at and
\* ended_at have been sampled once each, in this order, ended_at is not
\* before started_at, duration_seconds is the number of whole seconds
\* between them and not negative, started_at was sampled before every
\* monitoring poll and ended_at after every monitoring poll and before
\* the recording was retrieved.
C16_ResultTimes ==
    pc = "returned" =>
        /\ Cardinality(EventsOf("started_at")) = 1
        /\ Cardinality(EventsOf("ended_at")) = 1
        /\ \A n \in EventsOf("started_at") : events[n].at = started_at
        /\ \A n \in EventsOf("ended_at") : events[n].at = ended_at
        /\ 0 <= started_at /\ started_at <= ended_at
        /\ duration_seconds >= 0
        /\ duration_seconds * TicksPerSecond <= ended_at - started_at
        /\ ended_at - started_at < (duration_seconds + 1) * TicksPerSecond
        /\ Precedes("started_at", "ended_at")
        /\ Precedes("started_at", "poll")
        /\ Precedes("poll", "ended_at")
        /\ Precedes("ended_at", "get_recording")
        /\ Cardinality(EventsOf("poll")) = Len(monPolls)

C16_Witness ==
    /\ pc = "returned"
    /\ wait_for_end
    /\ Len(monPolls) = 2
    /\ ended_at - started_at = Seconds(2 * STATUS_CHECK_INTERVAL) + 60
    /\ duration_seconds = 2 * STATUS_CHECK_INTERVAL

\* the task was cancelled after recording had started
InterruptedWhileRecording ==
    \E m \in EventsOf("recording"), n \in EventsOf("interrupt") : m < n

\* C17: an interrupt after recording started, with wait_for_end false,
\* never makes join_and_record raise the cancellation: it goes on to
\* retrieve the recording; with wait_for_end true it makes join_and_record
\* raise the cancellation without writing an artifact, and when the with
\* statement has been left every browser resource has been released.
C17_CancellationUnwinds ==
    /\ (~wait_for_end /\ InterruptedWhileRecording) =>
          /\ pc \in {"get_recording", "returned", "raised"}
          /\ error # "CancelledError"
          /\ \A n \in EventsOf("interrupt") : n < Len(events) => events[n + 1].ev = "ended_at"
    /\ (wait_for_end /\ InterruptedWhileRecording) =>
          /\ pc = "raised"
          /\ error = "CancelledError"
          /\ ~input_exists
          /\ ppc = "scope_exited" => resources = {}

\* C33: when the with statement has been left, by whatever path (setup
\* failed, join_and_record returned, raised or was cancelled, a release
\* step of _cleanup raised), no browser resource is held any more.
C33_AllReleasedAfterScope == ppc = "scope_exited" => resources = {}

\* ========================================================================
\* Properties of the pipeline (checked under PipelineSpec)
\* ========================================================================
\* the bot has been alone at every monitoring poll and the accumulated
\* alone-time has reached empty_meeting_timeout: no one joined
EmptyMeetingTimedOut ==
    /\ monPolls # <<>>
    /\ AllPolls(monPolls, AlonePoll)
    /\ Len(monPolls) * STATUS_CHECK_INTERVAL >= empty_meeting_timeout

\* C12: the process exits with 0 only when recording and transcription
\* succeeded and the output was written; a session in which no one joined
\* ends with NoParticipantsError, and that error exits with 2; a
\* cancelled run exits with 130; every other failure exits with 1.
C12_ExitCodes ==
    /\ EmptyMeetingTimedOut => (pc = "raised" /\ error = "NoParticipantsError")
    /\ ppc = "exited" =>
          /\ exit_code \in {0, 1, 2, 130}
          /\ exit_code = 0 =>
                (perror = "none" /\ terror = "none" /\ audio_path_set
                    /\ tresult # NoResult)
          /\ perror = "NoParticipantsError" => exit_code = 2
          /\ perror = "CancelledError" => exit_code = 130
          /\ perror \notin {"none", "NoParticipantsError", "CancelledError"} =>
                exit_code \in {1, 130}

\* C32: while the session that the pipeline has constructed is in use, its
\* waiting_room_timeout, alone_wait_seconds and empty_meeting_timeout are
\* the values of the loaded configuration, and the joining phase makes no
\* more polls than the configured waiting_room_timeout.
C32_ConfiguredTimeouts ==
    ppc = "session" =>
        /\ alone_wait_seconds = config.alone_wait_seconds
        /\ empty_meeting_timeout = config.empty_meeting_timeout
        /\ waiting_room_timeout = config.waiting_room_timeout
        /\ Len(joinPolls) <= config.waiting_room_timeout

\* the controller is at work: between the construction of the session and
\* the end of the with statement
ControllerActive == ppc \in {"enter", "session"}
\* the engine has started: transcribe() was called, or some audio-tool or
\* client call has been made
EngineStarted == tpc # "idle" \/ calls # <<>>

PollsMade == Len(joinPolls) + Len(monPolls)
ToolCallsMade == Cardinality({n \in 1..Len(calls) : calls[n].op # "sleep"})

\* C14: the engine starts only after the controller has finished: the
\* recording has been retrieved, the with statement has been left and
\* every browser resource released, and no poll is made any more; and no
\* step of the pipeline makes more than one poll, audio-tool invocation or
\* client call.
C14_Sequential ==
    /\ [](EngineStarted =>
            /\ ~ControllerActive
            /\ ppc \in {"transcribe", "main", "exited"}
            /\ audio_path_set
            /\ resources = {}
            /\ pc = "idle")
    /\ [][(PollsMade' - PollsMade) + (ToolCallsMade' - ToolCallsMade) <= 1]_vars

C14_Witness ==
    /\ ppc = "transcribe"
    /\ tpc = "segment"
    /\ CallsOf("extract") # {}
    /\ CallsOf("client") # {}
    /\ audio_path_set

\* _run_recording is over: its finally block has run
RunRecordingOver == ppc \in {"main", "exited"}

\* C15: the artifact exists from the moment join_and_record has returned
\* it until the finally block of _run_recording; after that block it
\* exists exactly when keep-audio was given, whether _run_recording
\* returned or raised; and without a returned recording there is no
\* artifact.
C15_ArtifactCleanup ==
    /\ ((pc = "returned" \/ audio_path_set) /\ ~RunRecordingOver) => input_exists
    /\ (audio_path_set /\ RunRecordingOver) => (input_exists <=> keep_audio)
    /\ (pc # "returned" /\ ~audio_path_set) => ~input_exists

C15_Witness ==
    /\ ppc = "exited"
    /\ audio_path_set
    /\ ~keep_audio
    /\ ~input_exists
    /\ perror = "RuntimeError"
    /\ terror = "RuntimeError"
    /\ exit_code = 1
====
